---- MODULE Spec2Model ----
(***************************************************************************)
(* A model of the expense exporter's batch run, FileProcessor.process_file *)
(* (src/src/utils/file_process.py), with the stores it writes to:          *)
(* MongoDBProcess, PostgresProcess and the CloudHelper object store.       *)
(*                                                                         *)
(* file_process.py holds two live definitions of class FileProcessor: the  *)
(* one at lines 28-320 (revision 1) and the one at lines 696-915 (revision *)
(* 2, the one the name is bound to once the module has been imported).     *)
(* Both are modelled; the variable `revision` says which one runs.         *)
(*                                                                         *)
(* Strings are sequences of one-character strings. The collaborators that  *)
(* do I/O (the fetcher, the object store, the two databases) are steps     *)
(* whose outcome is chosen from the outcomes of their interface: a         *)
(* download delivers a file or None, upload_blob answers True or False or  *)
(* raises, a database call answers or fails. This covers what the file     *)
(* does as it stands, where revision 1's _download_pdf calls               *)
(* self._download_with_playwright, a function defined at module level      *)
(* (line 322), and so returns None for every wormhole.app URL, and where    *)
(* revision 2 sets cloud_helper in a method named init (line 699), which    *)
(* nothing calls, so that every upload raises AttributeError.              *)
(***************************************************************************)
EXTENDS Integers, Sequences, FiniteSets, TLC

VARIABLES
    revision,         \* which definition of FileProcessor runs: 1 or 2
    columns,          \* the column names of the input table that matter
    input,            \* the cells of the input table's file_link column, with the other columns
    df,               \* the data frame: a sequence of rows
    pc,               \* position of process_file
    pos,              \* position of the row loop in df (iterrows), 1-based
    local_file_path,  \* content of the downloaded file of the current row, or None
    file_hash,        \* the local file_hash of the current row, or None
    s3_key,           \* the key the current row was uploaded under, or None
    mongo_id,         \* the identifier the document insert returned, or None
    downloads,        \* DOWNLOAD_DIR: a set of [path, content]
    pg_result,        \* what insert_full_invoice_data returned for the row, or None
    calls,            \* the store operations performed for the current row
    exc,              \* the message of the exception the current row raised, or None
    processed_count,
    success_count,
    failed_count,
    mongo,            \* the document store: a set of documents
    pg,               \* hotel_uploads: a set of rows
    s3,               \* the object store: a set of [key, content]
    faults,           \* number of failures injected so far
    result,           \* what process_file returned or raised, "running" while it runs
    writes,           \* the documents and records the current row handed to the stores, in order
    summary,          \* the summary process_file logged, or None
    runs,             \* the batch runs that work on the stores side by side
    input_file_path,  \* the input path process_file is called with, or None
    output_file_path, \* the output path process_file is called with, or None
    files,            \* the table files on disk: a set of [path, content]
    output_uploads,   \* the files handed to cloud_helper.upload_output_file, in order
    hashers,          \* calls of calculate_md5 under way
    fetch,            \* a call of the content fetcher under way
    processor         \* the names that resolve on the FileProcessor instance

vars == <<revision, columns, input, df, pc, pos, local_file_path, file_hash, s3_key,
          mongo_id, downloads, pg_result, calls, exc, processed_count, success_count, failed_count,
          mongo, pg, s3, faults, result, writes, summary, runs,
          input_file_path, output_file_path, files, output_uploads, hashers, fetch,
          processor>>

\* The paths and the table files
file_vars == <<input_file_path, output_file_path, files, output_uploads>>

\* The calls of calculate_md5 and of the fetcher that are followed on their own
side_vars == <<hashers, fetch, processor>>

(***************************************************************************)
(* Bounds                                                                  *)
(***************************************************************************)
MaxLen == 5      \* longest cell of the link-expansion specification
MaxRows == 2     \* most rows of the expanded table
MaxFaults == 2   \* most failures injected in one run
MaxRuns == 3     \* most batch runs that work on the stores side by side
MaxBytes == 3    \* longest file that calculate_md5 is followed on
MaxChunk == 2    \* largest chunk_size that calculate_md5 is followed with

(***************************************************************************)
(* Values                                                                  *)
(***************************************************************************)
None == <<>>                     \* Python's None (and the empty string)
NaN == <<"NaN">>                 \* pandas' missing value
Separators == {",", ";", "|"}
Whitespace == {" "}
Alphabet == {"a", " "} \cup Separators

isna(v) == v = NaN

\* str(v) of a cell: the text itself, "nan" for the missing value
str(v) == IF isna(v) THEN <<"n", "a", "n">> ELSE v

(***************************************************************************)
(* Python's str methods                                                    *)
(***************************************************************************)
RECURSIVE lstrip(_)
lstrip(s) == IF s # <<>> /\ Head(s) \in Whitespace THEN lstrip(Tail(s)) ELSE s

RECURSIVE rstrip(_)
rstrip(s) ==
    IF s # <<>> /\ s[Len(s)] \in Whitespace THEN rstrip(SubSeq(s, 1, Len(s) - 1)) ELSE s

strip(s) == rstrip(lstrip(s))

replace(s, old, new) == [i \in 1..Len(s) |-> IF s[i] = old THEN new ELSE s[i]]

\* s.split(sep): the pieces between the occurrences of sep, empty pieces kept
RECURSIVE split(_, _)
split(s, sep) ==
    IF \A i \in 1..Len(s) : s[i] # sep
    THEN <<s>>
    ELSE LET k == CHOOSE i \in 1..Len(s) : s[i] = sep /\ \A j \in 1..(i - 1) : s[j] # sep
         IN  <<SubSeq(s, 1, k - 1)>> \o split(SubSeq(s, k + 1, Len(s)), sep)

NonEmpty(s) == s # <<>>

\* [link.strip() for link in links_str.replace(';', ',').replace('|', ',').split(',')
\*  if link.strip()]
links(cell) ==
    LET links_str == strip(str(cell))
        pieces == split(replace(replace(links_str, ";", ","), "|", ","), ",")
    IN  SelectSeq([i \in 1..Len(pieces) |-> strip(pieces[i])], NonEmpty)

(***************************************************************************)
(* The data frame                                                          *)
(***************************************************************************)
Digits == <<"1", "2", "3", "4", "5", "6", "7", "8", "9">>

\* A row of the frame: its index label, the file_link cell, the other input
\* columns, and the three outcome columns
Row(label, cell, other) ==
    [idx |-> label, file_link |-> cell, other |-> other,
     s3_link |-> None, status |-> None, file_hash |-> None]

\* pd.read_csv / pd.read_excel: a RangeIndex 0..n-1 over the rows of the file
read(tbl) == [i \in 1..Len(tbl) |-> Row(i - 1, tbl[i].file_link, tbl[i].other)]

\* revision 2: df['file_link'] = [f".../invoices/file_{i+1}.pdf" for i in range(len(df))]
dummy_links(d) == [i \in 1..Len(d) |-> [d[i] EXCEPT !.file_link = <<"f", Digits[i]>>]]

\* new_row = row.copy(); new_row['file_link'] = link
clone(row, link) == [row EXCEPT !.file_link = link]

\* A variant of expand that loses the last link of a row
expandDropsLast(row, cols) ==
    IF "file_link" \notin cols \/ isna(row.file_link)
    THEN <<row>>
    ELSE LET l == links(row.file_link)
         IN  IF Len(l) <= 1 THEN <<row>> ELSE [k \in 1..(Len(l) - 1) |-> clone(row, l[k])]

\* One turn of the expansion loop: the rows appended for one row of the frame
expand(row, cols) ==
    IF "file_link" \notin cols \/ isna(row.file_link)
    THEN <<row>>
    ELSE LET l == links(row.file_link)
         IN  IF Len(l) <= 1 THEN <<row>> ELSE [k \in 1..Len(l) |-> clone(row, l[k])]

\* expanded_rows after the loop over df.iterrows(); df = pd.DataFrame(expanded_rows)
RECURSIVE expanded_rows(_, _)
expanded_rows(d, cols) ==
    IF d = <<>> THEN <<>> ELSE expand(Head(d), cols) \o expanded_rows(Tail(d), cols)

\* df.at[label, col] = v. With a non-unique index .at falls back to .loc, which
\* writes every row that carries the label.
at_set(d, label, col, v) ==
    [k \in 1..Len(d) |-> IF d[k].idx = label THEN [d[k] EXCEPT ![col] = v] ELSE d[k]]

(***************************************************************************)
(* Status strings, as sequences of lexemes                                 *)
(***************************************************************************)
SUCCESS == <<"SUCCESS">>
DUPLICATE == <<"DUPLICATE", ": File already processed">>
FAILED(reason) == <<"FAILED:", " ", reason>>

(***************************************************************************)
(* What the run works on                                                   *)
(***************************************************************************)
\* Cells of the file_link column in the batch specification
Cells == {NaN, <<"a">>, <<"a", ",", "a", "a">>}

\* Cells of the link-expansion specification: the missing value and every
\* non-empty text over Alphabet of at most MaxLen characters (read_csv reads
\* an empty cell as the missing value)
RECURSIVE Texts(_)
Texts(n) ==
    IF n = 0 THEN {<<>>}
    ELSE Texts(n - 1) \cup {Append(t, c) : t \in {u \in Texts(n - 1) : Len(u) = n - 1}, c \in Alphabet}

AllCells == {NaN} \cup (Texts(MaxLen) \ {<<>>})

\* The rows one cell expands to
width(cell) == IF isna(cell) \/ Len(links(cell)) <= 1 THEN 1 ELSE Len(links(cell))

RECURSIVE total_width(_)
total_width(f) == IF f = <<>> THEN 0 ELSE width(Head(f)) + total_width(Tail(f))

\* An input table given its file_link cells: the other columns of row i stand for row i
Table(f) == [i \in 1..Len(f) |-> [file_link |-> f[i], other |-> <<"row", Digits[i]>>]]

\* The input tables with cells from C that expand to at most n rows
TablesOver(C, n) ==
    UNION {{Table(f) : f \in {g \in [1..k -> C] : total_width(g) <= n}} : k \in 0..n}

\* The input tables of one row, its cell from C
OneRowTables(C) == {Table(<<c>>) : c \in C}

ColumnSets == {{"file_link"}, {"file_link", "external_file_link"}, {"external_file_link"}}

\* Contents a download can deliver, and their digests
Contents == {"A", "B"}

\* calculate_md5: the hex digest of the file's bytes
calculate_md5(content) == <<"md5", content>>

\* Stores as a run finds them: empty, or holding the record of a file whose
\* content was "A", processed by an earlier run
MongoSeeds == {{}, {[_id |-> <<"0">>, file_hash |-> calculate_md5("A")]}}
PgSeeds ==
    {{}, {[id |-> <<"0">>, file_hash |-> calculate_md5("A"), source_id |-> None,
           updated_on |-> "earlier"]}}

InitWith(T) ==
    /\ revision \in {1, 2}
    /\ columns \in ColumnSets
    /\ input \in T
    /\ "file_link" \notin columns => \A i \in 1..Len(input) : isna(input[i].file_link)
    /\ revision = 1 => "external_file_link" \notin columns \/ "file_link" \notin columns
    /\ df = <<>>
    /\ pc = "start"
    /\ pos = 0
    /\ local_file_path = None
    /\ file_hash = None
    /\ s3_key = None
    /\ mongo_id = None
    /\ downloads = {}
    /\ pg_result = None
    /\ calls = {}
    /\ exc = None
    /\ processed_count = 0
    /\ success_count = 0
    /\ failed_count = 0
    /\ mongo \in MongoSeeds
    /\ pg \in PgSeeds
    /\ s3 = {}
    /\ faults = 0
    /\ result = "running"
    /\ writes = <<>>
    /\ summary = None

\* A table file as read_csv / read_excel can read it, and other files
TableFile == [kind |-> "table", rows |-> <<>>]
OtherFile == [kind |-> "other", rows |-> <<>>]

\* The input is in.csv, the output goes to out.csv, which does not exist yet
DefaultFiles ==
    /\ input_file_path = <<"in", ".csv">>
    /\ output_file_path = <<"out", ".csv">>
    /\ files = {[path |-> <<"in", ".csv">>, content |-> TableFile]}
    /\ output_uploads = <<>>

\* No call of calculate_md5 or of the fetcher is followed on its own
NoSide == hashers = <<>> /\ fetch = <<>> /\ processor = {}

\* One batch run; no other run works on the stores
Init == InitWith(TablesOver(Cells, MaxRows)) /\ runs = <<>> /\ DefaultFiles /\ NoSide

(***************************************************************************)
(* process_file, up to the row loop                                        *)
(***************************************************************************)
\* The frame the expansion loop runs over, and its columns. Revision 1 runs
\* over the file as read. Revision 2 overwrites file_link with generated
\* links when the file has no external_file_link column.
frame_read ==
    IF revision = 2 /\ "external_file_link" \notin columns
    THEN dummy_links(read(input))
    ELSE read(input)

columns_read ==
    IF revision = 2 /\ "external_file_link" \notin columns
    THEN columns \cup {"file_link"}
    ELSE columns

\* os.path.exists(path) for a table file
exists(path) == \E f \in files : f.path = path

\* The extension path.lower().endswith(...) looks at: the last part of the path
extension(path) == path[Len(path)]

\* Can the input file be read? read_csv and read_excel raise on a file that
\* is no table, and revision 2 reads Excel files with engine='openpyxl',
\* which raises on an .xls file
readable(path) ==
    /\ (CHOOSE f \in files : f.path = path).content.kind = "table"
    /\ revision = 2 => extension(path) # ".xls"

\* process_file ends before the expansion: it returns False, or an exception leaves it
ends_early(outcome) ==
    /\ pc' = "done"
    /\ result' = outcome
    /\ UNCHANGED <<df, pos, columns>>

\* The input validation, the read and the expansion. Revision 1 gives up when
\* the file has no file_link column.
ReadAndExpand ==
    /\ pc = "start"
    /\ IF input_file_path = None \/ ~exists(input_file_path)
       THEN ends_early("False")
       ELSE IF extension(input_file_path) \notin {".csv", ".xlsx", ".xls"}
       THEN ends_early("False")
       ELSE IF ~readable(input_file_path)
       THEN ends_early("Exception")
       ELSE IF revision = 1 /\ "file_link" \notin columns
       THEN ends_early("False")
       ELSE /\ df' = expanded_rows(frame_read, columns_read)
            /\ columns' = columns_read \cup {"s3_link", "status", "file_hash"}
            /\ pos' = 1
            /\ pc' = IF Len(df') = 0 THEN "loop_done" ELSE "row"
            /\ UNCHANGED result
    /\ UNCHANGED <<revision, input, local_file_path, file_hash, s3_key, mongo_id, downloads,
                   pg_result, calls, exc, processed_count, success_count, failed_count,
                   mongo, pg, s3, faults, writes, summary, runs,
                   file_vars, side_vars>>

(***************************************************************************)
(* The row loop                                                            *)
(***************************************************************************)
\* A variant of fail_row that forgets failed_count
fail_row_uncounted(status) ==
    /\ df' = at_set(df, df[pos].idx, "status", status)
    /\ exc' = exc
    /\ failed_count' = failed_count
    /\ pc' = "row_end"

\* df.at[idx, 'status'] = status; failed_count += 1; continue
fail_row(status) ==
    /\ df' = at_set(df, df[pos].idx, "status", status)
    /\ exc' = exc
    /\ failed_count' = failed_count + 1
    /\ pc' = "row_end"

\* A variant of except_Exception that leaves the loop
except_aborts(d, e) ==
    /\ exc' = <<e>>
    /\ df' = at_set(d, d[pos].idx, "status", FAILED(e))
    /\ failed_count' = failed_count + 1
    /\ pc' = "loop_done"

\* A variant of except_Exception that does not write the status
except_keeps_status(d, e) ==
    /\ exc' = <<e>>
    /\ df' = d
    /\ failed_count' = failed_count + 1
    /\ pc' = "row_end"

\* except Exception as e: df.at[idx, 'status'] = f"FAILED: {str(e)}";
\* failed_count += 1; continue. d is the frame as the try block left it.
except_Exception(d, e) ==
    /\ exc' = <<e>>
    /\ df' = at_set(d, d[pos].idx, "status", FAILED(e))
    /\ failed_count' = failed_count + 1
    /\ pc' = "row_end"

\* A failure of a collaborator: at most MaxFaults of them in a run
Fault ==
    /\ faults < MaxFaults
    /\ faults' = faults + 1

WormholeBase == "https://wormhole.app/"

\* The URL handed to _download_pdf: revision 1 prefixes the stripped cell,
\* revision 2 uses the stripped cell
file_url(cell) ==
    IF revision = 1 THEN <<WormholeBase>> \o strip(str(cell)) ELSE strip(str(cell))

\* os.path.basename(urlparse(url).path)
basename(url) == IF url # <<>> /\ Head(url) = WormholeBase THEN Tail(url) ELSE url

\* The local path _download_pdf saves to: the URL's file name, or
\* invoice_{row_num}.pdf when there is none (revision 1: also when it has no dot)
download_path(url, row_num) ==
    LET filename == basename(url)
        fallback == <<"invoice_", Digits[row_num], ".pdf">>
    IN  IF revision = 1
        THEN IF filename = <<>> \/ \A i \in 1..Len(filename) : filename[i] # "." THEN fallback
             ELSE filename
        ELSE IF filename = <<>> THEN fallback ELSE filename

\* open(local_path, 'wb') and the writes: the file at path now holds content
write_file(fs, path, content) ==
    {f \in fs : f.path # path} \cup {[path |-> path, content |-> content]}

\* Is the row's file_link missing? Revision 1: pd.isna(row['file_link']).
\* Revision 2: not str(row['file_link']).strip().
missing_link(cell) ==
    IF revision = 1 THEN isna(cell) ELSE strip(str(cell)) = <<>>

Download ==
    /\ pc = "row"
    /\ LET row == df[pos]
           url == file_url(row.file_link)
           path == download_path(url, row.idx + 1)
       IN  \/ \* revision 2 reads row['file_link'] of a frame without the column: KeyError
              /\ "file_link" \notin columns
              /\ except_Exception(df, "'file_link'")
              /\ UNCHANGED <<local_file_path, downloads, calls, faults>>
           \/ /\ "file_link" \in columns
              /\ missing_link(row.file_link)
              /\ fail_row(FAILED("Missing file_link"))
              /\ UNCHANGED <<local_file_path, downloads, calls, faults>>
           \/ \* _download_pdf returns None (it catches every exception of its strategies)
              /\ "file_link" \in columns
              /\ ~missing_link(row.file_link)
              /\ Fault
              /\ fail_row(FAILED("PDF download failed"))
              /\ calls' = calls \cup {"download"}
              /\ UNCHANGED <<local_file_path, downloads>>
           \/ \* _download_pdf returns the local path
              /\ "file_link" \in columns
              /\ ~missing_link(row.file_link)
              /\ \E content \in Contents : downloads' = write_file(downloads, path, content)
              /\ local_file_path' = path
              /\ calls' = calls \cup {"download"}
              /\ pc' = "hash"
              /\ UNCHANGED <<df, failed_count, exc, faults>>
    /\ UNCHANGED <<revision, columns, input, pos, file_hash, s3_key, mongo_id, pg_result,
                   processed_count, success_count, mongo, pg, s3, result, writes, summary, runs,
                   file_vars, side_vars>>

\* The content of the file at path
file_content(path) == (CHOOSE f \in downloads : f.path = path).content

\* file_hash = calculate_md5(local_file_path); revision 1 records it in the
\* frame at once, revision 2 after the upload
Hash ==
    /\ pc = "hash"
    /\ \/ /\ file_hash' = calculate_md5(file_content(local_file_path))
          /\ df' = IF revision = 1 THEN at_set(df, df[pos].idx, "file_hash", file_hash') ELSE df
          /\ pc' = "upload"
          /\ UNCHANGED <<failed_count, exc, faults>>
       \/ \* the read fails
          /\ Fault
          /\ except_Exception(df, "read error")
          /\ UNCHANGED file_hash
    /\ UNCHANGED <<revision, columns, input, pos, local_file_path, s3_key, mongo_id, downloads,
                   pg_result, calls, processed_count, success_count, mongo, pg, s3, result,
                   writes, summary, runs,
                   file_vars, side_vars>>

\* The key of the row's object: revision 1 numbers it by the row's index
\* label, revision 2 names it by the local file
object_key ==
    IF revision = 1 THEN <<"tmc_portal/file_", Digits[df[pos].idx + 1], ".pdf">>
    ELSE <<"tata_capital/">> \o local_file_path

\* cloud_helper.get_file_url(s3_key)
get_file_url(key) == <<"url:">> \o key

\* cloud_helper.upload_blob: the object at key now holds content
upload_blob(store, key, content) ==
    {o \in store : o.key # key} \cup {[key |-> key, content |-> content]}

Upload ==
    /\ pc = "upload"
    /\ LET idx == df[pos].idx
           s3_link == get_file_url(object_key)
       IN  \/ \* upload_blob returns True
              /\ s3' = upload_blob(s3, object_key, file_content(local_file_path))
              /\ s3_key' = object_key
              /\ calls' = calls \cup {"upload_blob"}
              /\ df' = IF revision = 1
                       THEN at_set(at_set(df, idx, "s3_link", s3_link), idx, "status", SUCCESS)
                       ELSE at_set(at_set(at_set(df, idx, "file_hash", file_hash),
                                          idx, "s3_link", s3_link), idx, "status", SUCCESS)
              /\ pc' = IF revision = 1 THEN "dedup" ELSE "mongo"
              /\ UNCHANGED <<failed_count, exc, faults>>
           \/ \* upload_blob returns False
              /\ Fault
              /\ fail_row(FAILED(IF revision = 1 THEN "S3 upload failed" ELSE "Upload failed"))
              /\ calls' = calls \cup {"upload_blob"}
              /\ UNCHANGED <<s3, s3_key>>
           \/ \* upload_blob raises (it catches the provider's errors only), or
              \* the processor has no cloud_helper
              /\ Fault
              /\ except_Exception(df, "upload error")
              /\ UNCHANGED <<s3, s3_key, calls>>
    /\ UNCHANGED <<revision, columns, input, pos, local_file_path, file_hash, mongo_id,
                   downloads, pg_result, processed_count, success_count, mongo, pg, result,
                   writes, summary, runs,
                   file_vars, side_vars>>

\* MongoDBProcess.check_duplicate_by_hash: find_one({"file_hash": file_hash}) is not None
check_duplicate_by_hash(h) == \E d \in mongo : d.file_hash = h

\* Revision 1 only: the duplicate check, after the upload
Dedup ==
    /\ pc = "dedup"
    /\ \/ \* MongoDBProcess() raises
          /\ Fault
          /\ except_Exception(df, "mongo connection error")
          /\ UNCHANGED calls
       \/ /\ check_duplicate_by_hash(file_hash)
          /\ fail_row(DUPLICATE)
          /\ calls' = calls \cup {"check_duplicate_by_hash"}
          /\ UNCHANGED faults
       \/ /\ ~check_duplicate_by_hash(file_hash)
          /\ pc' = "mongo"
          /\ calls' = calls \cup {"check_duplicate_by_hash"}
          /\ UNCHANGED <<df, failed_count, exc, faults>>
       \/ \* find_one raises PyMongoError: the check answers False
          /\ Fault
          /\ pc' = "mongo"
          /\ calls' = calls \cup {"check_duplicate_by_hash"}
          /\ UNCHANGED <<df, failed_count, exc>>
    /\ UNCHANGED <<revision, columns, input, pos, local_file_path, file_hash, s3_key, mongo_id,
                   downloads, pg_result, processed_count, success_count, mongo, pg, s3, result,
                   writes, summary, runs,
                   file_vars, side_vars>>

\* str(result.inserted_id), str(record_id): a fresh identifier
fresh_id(store) == <<Digits[Cardinality(store) + 1]>>

\* Is the label of the current row carried by one row only? df.at[idx, col]
\* of a label that several rows carry is a Series, not a value.
label_unique == Cardinality({k \in 1..Len(df) : df[k].idx = df[pos].idx}) = 1

\* A variant of mongo_insert_failed that goes on to the relational write
mongo_insert_failed_goes_on ==
    /\ pc' = "pg"
    /\ UNCHANGED <<df, failed_count, exc>>

\* if not mongo_id: df.at[idx, 'status'] = "FAILED: MongoDB insert failed";
\* failed_count += 1; continue
mongo_insert_failed == fail_row(FAILED("MongoDB insert failed"))

\* A variant of mongo_data that leaves the fingerprint out
mongo_data_without_hash(id) == [_id |-> id, file_hash |-> None]

\* mongo_data: the row's columns and the outcome fields, file_hash among
\* them; insert_one gives the document its _id
mongo_data(id) == [_id |-> id, file_hash |-> file_hash]

\* The store write op wrote a record that carries the fingerprint h
written(op, h) == [op |-> op, file_hash |-> h]

MongoInsert ==
    /\ pc = "mongo"
    /\ \/ \* insert_invoice_data returns the identifier
          /\ revision = 2 => label_unique
          /\ mongo_id' = fresh_id(mongo)
          /\ mongo' = mongo \cup {mongo_data(mongo_id')}
          /\ writes' = Append(writes, written("insert_invoice_data",
                                              mongo_data(mongo_id').file_hash))
          /\ calls' = calls \cup {"insert_invoice_data"}
          /\ pc' = "pg"
          /\ UNCHANGED <<df, failed_count, exc, faults>>
       \/ \* insert_one raises PyMongoError: insert_invoice_data returns None
          /\ revision = 2 => label_unique
          /\ Fault
          /\ mongo_insert_failed
          /\ calls' = calls \cup {"insert_invoice_data"}
          /\ UNCHANGED <<mongo, mongo_id, writes>>
       \/ \* revision 2: the document holds a Series, which insert_one cannot
          \* encode; the error is no PyMongoError and leaves insert_invoice_data
          /\ revision = 2 /\ ~label_unique
          /\ except_Exception(df, "cannot encode object")
          /\ calls' = calls \cup {"insert_invoice_data"}
          /\ UNCHANGED <<mongo, mongo_id, faults, writes>>
       \/ \* revision 2: MongoDBProcess() raises
          /\ revision = 2
          /\ Fault
          /\ except_Exception(df, "mongo connection error")
          /\ UNCHANGED <<mongo, mongo_id, calls, writes>>
    /\ UNCHANGED <<revision, columns, input, pos, local_file_path, file_hash, s3_key,
                   downloads, pg_result, processed_count, success_count, pg, s3, result,
                   summary, runs,
                   file_vars, side_vars>>

\* The source_id of pg_data: revision 1 builds pg_data without one
source_id == IF revision = 1 THEN None ELSE mongo_id

\* os.remove(local_file_path), revision 1 only
remove(fs, path) == IF revision = 1 THEN {f \in fs : f.path # path} ELSE fs

\* The clean-up of a successful row: revision 1 calls os.remove in a try
\* block of its own, revision 2 has no clean-up
cleanup == IF revision = 1 THEN {"os.remove"} ELSE {}

\* processed_count += 1; success_count += 1
count_success ==
    /\ processed_count' = processed_count + 1
    /\ success_count' = success_count + 1

\* pg_data, as far as the fingerprint and the source identifier go
pg_data == [file_hash |-> file_hash, source_id |-> source_id]

\* A variant of select_by_hash that finds no row
select_nothing(table, h) == {}

\* SELECT id FROM hotel_uploads WHERE file_hash = %s
select_by_hash(table, h) == {r \in table : r.file_hash = h}

\* UPDATE hotel_uploads SET updated_on = CURRENT_TIMESTAMP WHERE id = %s
update_updated_on(table, id) ==
    {IF r.id = id THEN [r EXCEPT !.updated_on = "now"] ELSE r : r \in table}

\* INSERT INTO hotel_uploads (...) VALUES (...) RETURNING id
insert_row(table, data) ==
    table \cup {[id |-> fresh_id(table), file_hash |-> data.file_hash,
                 source_id |-> data.source_id, updated_on |-> "now"]}

\* PostgresProcess.insert_full_invoice_data(pg_data) and what follows it
PgInsert ==
    /\ pc = "pg"
    /\ \/ \* a row with the file_hash exists: its updated_on is refreshed
          /\ \E existing \in select_by_hash(pg, pg_data.file_hash) :
                /\ pg' = update_updated_on(pg, existing.id)
                /\ pg_result' = <<existing.id, "duplicate">>
          /\ writes' = Append(writes, written("insert_full_invoice_data", pg_data.file_hash))
          /\ calls' = calls \cup {"insert_full_invoice_data"} \cup cleanup
          /\ \/ downloads' = remove(downloads, local_file_path)
             \/ revision = 1 /\ UNCHANGED downloads
          /\ count_success
          /\ pc' = "row_end"
          /\ UNCHANGED <<df, failed_count, exc, faults>>
       \/ \* no row has the file_hash: one is inserted
          /\ select_by_hash(pg, pg_data.file_hash) = {}
          /\ pg' = insert_row(pg, pg_data)
          /\ pg_result' = <<fresh_id(pg), "new">>
          /\ writes' = Append(writes, written("insert_full_invoice_data", pg_data.file_hash))
          /\ calls' = calls \cup {"insert_full_invoice_data"} \cup cleanup
          /\ \/ downloads' = remove(downloads, local_file_path)
             \/ revision = 1 /\ UNCHANGED downloads
          /\ count_success
          /\ pc' = "row_end"
          /\ UNCHANGED <<df, failed_count, exc, faults>>
       \/ \* the database fails: insert_full_invoice_data returns None
          /\ Fault
          /\ fail_row(FAILED("PostgreSQL insert failed"))
          /\ calls' = calls \cup {"insert_full_invoice_data"}
          /\ UNCHANGED <<pg, pg_result, downloads, processed_count, success_count, writes>>
       \/ \* revision 2: a mapped column does not convert (float, to_datetime)
          /\ revision = 2
          /\ Fault
          /\ except_Exception(df, "could not convert")
          /\ UNCHANGED <<pg, pg_result, downloads, calls, processed_count, success_count,
                         writes>>
    /\ UNCHANGED <<revision, columns, input, pos, local_file_path, file_hash, s3_key, mongo_id,
                   mongo, s3, result, summary, runs,
                   file_vars, side_vars>>

\* The loop goes to the next row, or ends
NextRow ==
    /\ pc = "row_end"
    /\ pos' = pos + 1
    /\ pc' = IF pos' > Len(df) THEN "loop_done" ELSE "row"
    /\ local_file_path' = None
    /\ file_hash' = None
    /\ s3_key' = None
    /\ mongo_id' = None
    /\ pg_result' = None
    /\ calls' = {}
    /\ exc' = None
    /\ writes' = <<>>
    /\ UNCHANGED <<revision, columns, input, df, downloads, processed_count, success_count,
                   failed_count, mongo, pg, s3, faults, result, summary, runs,
                   file_vars, side_vars>>

\* logger.info("Expense Exporter Summary:") and the four counts that follow
Summary == <<Len(df), processed_count, success_count, failed_count>>

\* What df.to_csv / df.to_excel leave in the file: the frame
Annotated == [kind |-> "annotated", rows |-> df]

\* The path the frame is written to. Revision 2: output_file_path or
\* input_file_path. Revision 1 writes only 'if output_file_path'.
output_target ==
    IF revision = 2 /\ output_file_path = None THEN input_file_path ELSE output_file_path

\* The extensions the save step has a writer for. Revision 1: to_csv for
\* .csv, to_excel for .xlsx and .xls, nothing otherwise. Revision 2: to_csv
\* for .csv, to_excel(engine='openpyxl') otherwise, which takes .xlsx.
writes_extension(ext) ==
    IF revision = 1 THEN ext \in {".csv", ".xlsx", ".xls"} ELSE ext \in {".csv", ".xlsx"}

\* The summary is logged and process_file returns True
returns_True ==
    /\ result' = "True"
    /\ summary' = Summary

\* if self.cloud_helper and os.path.exists(output_file_path):
\*     self.cloud_helper.upload_output_file(output_file_path)
\* (revision 1 only), on the files as the save step left them
upload_output(fs) ==
    IF revision = 1 /\ \E f \in fs : f.path = output_file_path
    THEN output_uploads' = Append(output_uploads, CHOOSE f \in fs : f.path = output_file_path)
    ELSE UNCHANGED output_uploads

\* After the loop: the frame is written out, the output file uploaded and
\* the summary logged
Save ==
    /\ pc = "loop_done"
    /\ pc' = "done"
    /\ \/ \* revision 1, no output path: nothing is written, and
          \* os.path.exists(None) raises TypeError, which leaves process_file
          /\ output_target = None
          /\ result' = "Exception"
          /\ UNCHANGED <<files, output_uploads, summary, faults>>
       \/ \* the frame is written
          /\ output_target # None
          /\ writes_extension(extension(output_target))
          /\ files' = write_file(files, output_target, Annotated)
          /\ upload_output(files')
          /\ returns_True
          /\ UNCHANGED faults
       \/ \* the write raises: return False
          /\ output_target # None
          /\ writes_extension(extension(output_target))
          /\ Fault
          /\ result' = "False"
          /\ UNCHANGED <<files, output_uploads, summary>>
       \/ \* revision 1, an extension neither branch takes: nothing is written
          /\ revision = 1
          /\ output_target # None
          /\ ~writes_extension(extension(output_target))
          /\ upload_output(files)
          /\ returns_True
          /\ UNCHANGED <<files, faults>>
       \/ \* revision 2, an extension openpyxl does not take: to_excel raises
          /\ revision = 2
          /\ ~writes_extension(extension(output_target))
          /\ result' = "False"
          /\ UNCHANGED <<files, output_uploads, summary, faults>>
    /\ UNCHANGED <<revision, columns, input, df, pos, local_file_path, file_hash, s3_key,
                   mongo_id, downloads, pg_result, calls, exc, processed_count, success_count,
                   failed_count, mongo, pg, s3, writes, runs, input_file_path,
                   output_file_path, side_vars>>

\* main: sys.exit(1) when process_file returned False or raised, a clean
\* exit when it returned True
exit_status == IF result = "True" THEN 0 ELSE 1

\* The positions of process_file inside the row loop
InLoop == {"row", "hash", "upload", "dedup", "mongo", "pg", "row_end"}

\* KeyboardInterrupt is no Exception: neither 'except Exception' of the loop
\* nor any handler of the collaborators catches it, and process_file has no
\* handler of its own, so the call ends with the interruption, at once
raise_KeyboardInterrupt ==
    /\ pc' = "interrupted"
    /\ result' = "KeyboardInterrupt"
    /\ UNCHANGED summary

\* The user interrupts the run (SIGINT) while it is in the row loop. Python
\* raises KeyboardInterrupt in the main thread wherever it is: between two
\* steps of a row, or inside a step, where the collaborator's write has or has
\* not taken place.
Interrupt ==
    /\ pc \in InLoop
    /\ raise_KeyboardInterrupt
    /\ \/ \* between two steps, or before the step's write
          UNCHANGED <<s3, s3_key, mongo, mongo_id, writes>>
       \/ \* inside upload_blob (line 126, 794), the object stored, or before
          \* s3_link and status are recorded
          /\ pc = "upload"
          /\ s3' = upload_blob(s3, object_key, file_content(local_file_path))
          /\ s3_key' = object_key
          /\ UNCHANGED <<mongo, mongo_id, writes>>
       \/ \* inside insert_invoice_data, the document stored
          /\ pc = "mongo"
          /\ revision = 2 => label_unique
          /\ mongo_id' = fresh_id(mongo)
          /\ mongo' = mongo \cup {mongo_data(mongo_id')}
          /\ writes' = Append(writes, written("insert_invoice_data",
                                              mongo_data(mongo_id').file_hash))
          /\ UNCHANGED <<s3, s3_key>>
    /\ UNCHANGED <<revision, columns, input, df, pos, local_file_path, file_hash, downloads,
                   pg_result, calls, exc, processed_count, success_count, failed_count, pg,
                   faults, runs,
                   file_vars, side_vars>>

Next ==
    \/ ReadAndExpand
    \/ Download
    \/ Hash
    \/ Upload
    \/ Dedup
    \/ MongoInsert
    \/ PgInsert
    \/ NextRow
    \/ Save
    \/ Interrupt

Spec == Init /\ [][Next]_vars

\* The link expansion alone, over every cell of AllCells
InitExpand ==
    /\ InitWith(OneRowTables(AllCells))
    /\ mongo = {} /\ pg = {} /\ runs = <<>>
    /\ DefaultFiles /\ NoSide

NextExpand == ReadAndExpand

SpecExpand == InitExpand /\ [][NextExpand]_vars

\* Cells that are no missing value and hold no link: blanks and separators
BlankCells == {<<" ">>, <<",">>, <<" ", ";">>, <<"|", " ">>}

\* The batch over a table of one row whose cell is blank
InitBlank == InitWith(OneRowTables(BlankCells)) /\ runs = <<>> /\ DefaultFiles /\ NoSide

SpecBlank == InitBlank /\ [][Next]_vars

\* The paths a run can be given, and the files it can find there
InputPaths == {None, <<"in", ".csv">>, <<"in", ".xlsx">>, <<"in", ".xls">>, <<"in", ".txt">>}
OutputPaths == {None, <<"out", ".csv">>, <<"out", ".xlsx">>, <<"out", ".txt">>}

\* The files on disk before the run: the input file, if any, a table or not,
\* and possibly a file left at the output path by something earlier
FilesBefore(inp, out) ==
    {inps \cup outs :
        inps \in IF inp = None THEN {{}}
                 ELSE {{}, {[path |-> inp, content |-> TableFile]},
                       {[path |-> inp, content |-> OtherFile]}},
        outs \in IF out = None THEN {{}}
                 ELSE {{}, {[path |-> out, content |-> OtherFile]}}}

\* The batch over a table of at most one row, for every input path, output
\* path and set of columns
InitOutput ==
    /\ revision \in {1, 2}
    /\ columns \in ColumnSets \cup {{}}
    /\ input \in OneRowTables({NaN, <<"a">>}) \cup {<<>>}
    /\ "file_link" \notin columns => \A i \in 1..Len(input) : isna(input[i].file_link)
    /\ revision = 1 => "external_file_link" \notin columns \/ "file_link" \notin columns
    /\ input_file_path \in InputPaths
    /\ output_file_path \in OutputPaths
    /\ files \in FilesBefore(input_file_path, output_file_path)
    /\ output_uploads = <<>>
    /\ df = <<>>
    /\ pc = "start"
    /\ pos = 0
    /\ local_file_path = None
    /\ file_hash = None
    /\ s3_key = None
    /\ mongo_id = None
    /\ downloads = {}
    /\ pg_result = None
    /\ calls = {}
    /\ exc = None
    /\ processed_count = 0
    /\ success_count = 0
    /\ failed_count = 0
    /\ mongo = {}
    /\ pg = {}
    /\ s3 = {}
    /\ faults = 0
    /\ result = "running"
    /\ writes = <<>>
    /\ summary = None
    /\ runs = <<>>
    /\ NoSide

SpecOutput == InitOutput /\ [][Next]_vars

(***************************************************************************)
(* Batch runs side by side. Each run is a process of its own (main.py)     *)
(* with its own FileProcessor; the runs share the document store and the   *)
(* relational table. A run is followed from the point where its row has    *)
(* been downloaded, hashed and uploaded: runs[r] holds the row's           *)
(* file_hash, the run's position, and what its calls returned. The         *)
(* variables of the single run keep their initial values.                  *)
(***************************************************************************)
\* The run at the store steps of a row whose file has the given content
RunAt(content) ==
    [pc |-> IF revision = 1 THEN "dedup" ELSE "mongo",
     file_hash |-> calculate_md5(content),
     existing |-> None, mongo_id |-> None, pg_result |-> None, status |-> SUCCESS]

InitConcurrent ==
    /\ InitWith({<<>>})
    /\ columns = {"file_link"}
    /\ \E n \in 2..MaxRuns : runs \in [1..n -> {RunAt(c) : c \in Contents}]
    /\ DefaultFiles
    /\ NoSide

\* The variables the runs do not share
local_vars ==
    <<revision, columns, input, df, pc, pos, local_file_path, file_hash, s3_key, mongo_id,
      downloads, pg_result, calls, exc, processed_count, success_count, failed_count, s3,
      faults, result, writes, summary, file_vars, side_vars>>

\* if mongo_helper.check_duplicate_by_hash(file_hash): status DUPLICATE; continue
RunDedup(r) ==
    /\ runs[r].pc = "dedup"
    /\ runs' = [runs EXCEPT ![r] =
                    IF check_duplicate_by_hash(runs[r].file_hash)
                    THEN [@ EXCEPT !.pc = "row_end", !.status = DUPLICATE]
                    ELSE [@ EXCEPT !.pc = "mongo"]]
    /\ UNCHANGED <<mongo, pg, local_vars>>

\* mongo_id = mongo_helper.insert_invoice_data(mongo_data)
RunMongoInsert(r) ==
    /\ runs[r].pc = "mongo"
    /\ mongo' = mongo \cup {[_id |-> fresh_id(mongo), file_hash |-> runs[r].file_hash]}
    /\ runs' = [runs EXCEPT ![r] = [@ EXCEPT !.pc = "pg_select", !.mongo_id = fresh_id(mongo)]]
    /\ UNCHANGED <<pg, local_vars>>

\* cur.execute("SELECT id ... WHERE file_hash = %s"); existing = cur.fetchone()
RunPgSelect(r) ==
    /\ runs[r].pc = "pg_select"
    /\ \/ \E row \in select_by_hash(pg, runs[r].file_hash) :
             runs' = [runs EXCEPT ![r] = [@ EXCEPT !.pc = "pg_write", !.existing = row.id]]
       \/ /\ select_by_hash(pg, runs[r].file_hash) = {}
          /\ runs' = [runs EXCEPT ![r] = [@ EXCEPT !.pc = "pg_write"]]
    /\ UNCHANGED <<mongo, pg, local_vars>>

\* if existing: UPDATE ...; commit. Otherwise INSERT ...; commit.
RunPgWrite(r) ==
    /\ runs[r].pc = "pg_write"
    /\ IF runs[r].existing # None
       THEN /\ pg' = update_updated_on(pg, runs[r].existing)
            /\ runs' = [runs EXCEPT ![r] =
                            [@ EXCEPT !.pc = "row_end",
                                      !.pg_result = <<runs[r].existing, "duplicate">>]]
       ELSE /\ pg' = insert_row(pg, [file_hash |-> runs[r].file_hash,
                                     source_id |-> IF revision = 1 THEN None
                                                   ELSE runs[r].mongo_id])
            /\ runs' = [runs EXCEPT ![r] =
                            [@ EXCEPT !.pc = "row_end", !.pg_result = <<fresh_id(pg), "new">>]]
    /\ UNCHANGED <<mongo, local_vars>>

NextConcurrent ==
    \/ \E r \in DOMAIN runs : RunDedup(r)
    \/ \E r \in DOMAIN runs : RunMongoInsert(r)
    \/ \E r \in DOMAIN runs : RunPgSelect(r)
    \/ \E r \in DOMAIN runs : RunPgWrite(r)

SpecConcurrent == InitConcurrent /\ [][NextConcurrent]_vars

(***************************************************************************)
(* calculate_md5 on its own: the file is read chunk_size bytes at a time   *)
(* and every chunk is fed to the digest. Two calls are followed, one after *)
(* the other, each on a file of its own name and with its own chunk_size.  *)
(***************************************************************************)
\* The variables of the batch run
batch_vars == <<revision, columns, input, df, pc, pos, local_file_path, file_hash, s3_key,
                mongo_id, downloads, pg_result, calls, exc, processed_count, success_count,
                failed_count, mongo, pg, s3, faults, result, writes, summary, runs, file_vars>>

\* No batch run has begun; the input is an empty table
Idle ==
    /\ InitWith({<<>>})
    /\ columns = {"file_link"}
    /\ mongo = {} /\ pg = {} /\ runs = <<>>
    /\ DefaultFiles

Bytes == {0, 1}

\* The files of at most n bytes
FilesOfBytes(n) == UNION {[1..k -> Bytes] : k \in 0..n}

Min(a, b) == IF a < b THEN a ELSE b

\* f.read(chunk_size) at the offset: the next chunk_size bytes, fewer at the
\* end of the file, b"" past it
f_read(content, offset, chunk_size) ==
    SubSeq(content, offset + 1, Min(offset + chunk_size, Len(content)))

\* A variant of md5_update in which the digest keeps the latest chunk only
md5_update_keeps_last(state, chunk) == chunk

\* md5.update(chunk): the digest has been fed the bytes so far and the chunk
md5_update(state, chunk) == state \o chunk

\* md5.hexdigest(): the digest of the bytes fed
hexdigest(state) == calculate_md5(state)

\* A call calculate_md5(file_path, chunk_size) at its entry: md5 = hashlib.md5()
hasher(name, content, chunk_size) ==
    [file_path |-> name, content |-> content, chunk_size |-> chunk_size,
     offset |-> 0, md5 |-> <<>>, digest |-> None]

InitHash ==
    /\ Idle
    /\ revision = 2
    /\ fetch = <<>>
    /\ processor = {}
    /\ \E a \in FilesOfBytes(MaxBytes), b \in FilesOfBytes(MaxBytes) :
          \E m \in 1..MaxChunk, n \in 1..MaxChunk :
             hashers = <<hasher("a.pdf", a, m), hasher("b.pdf", b, n)>>

\* The call whose turn it is: the first that has not returned
hashing(i) ==
    /\ hashers[i].digest = None
    /\ \A j \in 1..(i - 1) : hashers[j].digest # None

\* for chunk in iter(lambda: f.read(chunk_size), b""): md5.update(chunk)
calculate_md5_update(i) ==
    LET h == hashers[i]
        chunk == f_read(h.content, h.offset, h.chunk_size)
    IN  /\ hashing(i)
        /\ chunk # <<>>
        /\ hashers' = [hashers EXCEPT ![i] =
                          [h EXCEPT !.md5 = md5_update(h.md5, chunk),
                                    !.offset = h.offset + Len(chunk)]]
        /\ UNCHANGED <<batch_vars, fetch, processor>>

\* f.read returns b"": the loop ends; return md5.hexdigest()
calculate_md5_return(i) ==
    LET h == hashers[i]
    IN  /\ hashing(i)
        /\ f_read(h.content, h.offset, h.chunk_size) = <<>>
        /\ hashers' = [hashers EXCEPT ![i] = [h EXCEPT !.digest = hexdigest(h.md5)]]
        /\ UNCHANGED <<batch_vars, fetch, processor>>

NextHash ==
    \/ \E i \in DOMAIN hashers : calculate_md5_update(i)
    \/ \E i \in DOMAIN hashers : calculate_md5_return(i)

SpecHash == InitHash /\ [][NextHash]_vars

(***************************************************************************)
(* The content fetcher on its own. Revision 1: _download_with_requests,    *)
(* the loop over range(max_retries). Revision 2: _download_pdf, one        *)
(* request. Then the test process_file makes of what the fetcher returned. *)
(***************************************************************************)
max_retries == 2

\* The URLs a call is followed on: one requests can send, one without a scheme
Urls == {<<"https", "host", "a.pdf">>, <<"host", "a.pdf">>}

\* requests.get raises MissingSchema for a URL without a scheme
malformed(url) == url[1] # "https"

\* The RequestExceptions that requests.get and response.raise_for_status
\* raise for the URL
RequestException(url) ==
    IF malformed(url)
    THEN {"MissingSchema"}
    ELSE {"ConnectionError", "Timeout", "HTTPError 403", "HTTPError 404",
          "HTTPError 500", "HTTPError 503"}

\* What is at local_path once the response has been written
Written == {"bytes", "empty", "missing"}

\* os.path.exists(local_path) and os.path.getsize(local_path) > 0; revision 2
\* makes no such test
verified(file) == revision = 1 => file = "bytes"

\* a call of the fetcher at its entry
fetcher(url) ==
    [url |-> url, attempt |-> 0, outcomes |-> <<>>, slept |-> <<>>, file |-> None,
     returned |-> None, pc |-> "request", status |-> None]

InitFetch ==
    /\ Idle
    /\ hashers = <<>>
    /\ processor = {}
    /\ \E url \in Urls : fetch = fetcher(url)

\* except RequestException: if attempt < max_retries - 1 the loop goes on
retries == revision = 1 /\ fetch.attempt < max_retries - 1

\* requests.get or raise_for_status raises a RequestException
requests_get_raises ==
    /\ fetch.pc = "request"
    /\ \E e \in RequestException(fetch.url) :
          fetch' = IF retries
                   THEN [fetch EXCEPT !.outcomes = Append(@, e),
                                      !.slept = Append(@, 2 ^ fetch.attempt),
                                      !.attempt = @ + 1]
                   ELSE [fetch EXCEPT !.outcomes = Append(@, e),
                                      !.returned = None,
                                      !.pc = "returned"]
    /\ UNCHANGED <<batch_vars, hashers, processor>>

\* The response is a success and its body is written to local_path
response_written ==
    /\ fetch.pc = "request"
    /\ ~malformed(fetch.url)
    /\ \E file \in Written :
          fetch' = [fetch EXCEPT !.outcomes = Append(@, "200"),
                                 !.file = <<file>>,
                                 !.returned = IF verified(file) THEN <<"local_path">> ELSE None,
                                 !.pc = "returned"]
    /\ UNCHANGED <<batch_vars, hashers, processor>>

\* open(local_path, 'wb') or a write raises OSError: no RequestException;
\* _download_pdf catches it and returns None
open_raises ==
    /\ fetch.pc = "request"
    /\ ~malformed(fetch.url)
    /\ fetch' = [fetch EXCEPT !.outcomes = Append(@, "OSError"),
                              !.returned = None,
                              !.pc = "returned"]
    /\ UNCHANGED <<batch_vars, hashers, processor>>

\* process_file: if not local_file_path the row fails, else it goes on to
\* calculate_md5
download_returned ==
    /\ fetch.pc = "returned"
    /\ fetch' = IF fetch.returned = None
                THEN [fetch EXCEPT !.status = FAILED("PDF download failed"), !.pc = "row_end"]
                ELSE [fetch EXCEPT !.pc = "hash"]
    /\ UNCHANGED <<batch_vars, hashers, processor>>

NextFetch ==
    \/ requests_get_raises
    \/ response_written
    \/ open_raises
    \/ download_returned

SpecFetch == InitFetch /\ [][NextFetch]_vars

(***************************************************************************)
(* The instance main.py makes, and the names process_file looks up on it.  *)
(* processor = FileProcessor() runs __init__ when the class defines one;   *)
(* self.name resolves when the instance or its class binds the name, and   *)
(* raises AttributeError otherwise. One row is followed from the download  *)
(* to the call of upload_blob.                                             *)
(***************************************************************************)
\* The methods the class statement binds: revision 1 ends before the def of
\* _download_with_playwright, which stands at module level
methods ==
    IF revision = 1
    THEN {"__init__", "process_file", "_download_pdf", "_download_with_requests"}
    ELSE {"init", "process_file", "_download_pdf"}

\* FileProcessor(): the class's __init__ sets self.cloud_helper; a class
\* without __init__ gets object's, which sets nothing
constructed ==
    IF "__init__" \in methods THEN methods \cup {"cloud_helper"} ELSE methods

\* 'wormhole.app' in url.lower()
wormhole(url) == \E i \in 1..Len(url) : url[i] = "wormhole.app"

InstanceUrls == Urls \cup {<<"https", "wormhole.app", "x">>}

\* The row's download, before the instance exists
download(url) ==
    [url |-> url, attempt |-> 0, outcomes |-> <<>>, slept |-> <<>>, file |-> None,
     returned |-> None, pc |-> "new", status |-> None, strategy |-> None]

InitInstance ==
    /\ Idle
    /\ hashers = <<>>
    /\ processor = {}
    /\ \E url \in InstanceUrls : fetch = download(url)

\* main.run_csv_excel_processing: processor = FileProcessor()
FileProcessor_new ==
    /\ fetch.pc = "new"
    /\ processor' = constructed
    /\ fetch' = [fetch EXCEPT !.pc = "download"]
    /\ UNCHANGED <<batch_vars, hashers>>

\* The message of the AttributeError for a name the instance does not resolve
AttributeError(name) == FAILED("no attribute " \o name)

\* _download_pdf up to the strategy: revision 1 picks the browser strategy
\* for a wormhole.app URL and the HTTP strategy otherwise, looking either up
\* on self inside its try block; revision 2 makes the HTTP request itself
download_pdf ==
    /\ fetch.pc = "download"
    /\ LET name == IF wormhole(fetch.url) THEN "_download_with_playwright"
                   ELSE "_download_with_requests"
       IN  fetch' =
             IF revision = 2 THEN [fetch EXCEPT !.strategy = <<"requests">>, !.pc = "request"]
             ELSE IF name \notin processor
             THEN [fetch EXCEPT !.outcomes = Append(@, "AttributeError"),
                                !.returned = None,
                                !.pc = "returned"]
             ELSE [fetch EXCEPT !.strategy = <<"requests">>, !.pc = "request"]
    /\ UNCHANGED <<batch_vars, hashers, processor>>

\* process_file after the hash: self.cloud_helper.upload_blob(...). An
\* AttributeError is caught by the row's except Exception
upload_blob_call ==
    /\ fetch.pc = "hash"
    /\ fetch' = IF "cloud_helper" \in processor
                THEN [fetch EXCEPT !.pc = "upload"]
                ELSE [fetch EXCEPT !.status = AttributeError("cloud_helper"),
                                   !.pc = "row_end"]
    /\ UNCHANGED <<batch_vars, hashers, processor>>

NextInstance ==
    \/ FileProcessor_new
    \/ download_pdf
    \/ requests_get_raises
    \/ response_written
    \/ open_raises
    \/ download_returned
    \/ upload_blob_call

SpecInstance == InitInstance /\ [][NextInstance]_vars

(***************************************************************************)
(* Properties                                                              *)
(***************************************************************************)
\* Does the status begin with the prefix? Every prefix asked for is the
\* first lexeme of the statuses that begin with it.
startswith(s, prefix) == s # <<>> /\ s[1] = prefix

\* The status of the row the loop is at
row_status == df[pos].status

RowEnded == pc = "row_end"

LoopFinished == pc = "loop_done"

\* The row has reached its end; the user may have interrupted the run there
RowEndedBefore == pc \in {"row_end", "interrupted"}

\* The document store held a document with the row's fingerprint before the
\* row wrote anything to it
PresentBefore ==
    /\ file_hash # None
    /\ \E d \in mongo : d.file_hash = file_hash /\ d._id # mongo_id

\* C1: a row whose computed fingerprint is already present in the document
\* store performs no upload, no document insert and no relational write, and
\* its status is DUPLICATE (stated for the runs in which no collaborator fails)
C1_DedupShortCircuit ==
    (RowEnded /\ PresentBefore /\ faults = 0) =>
        /\ calls \cap {"upload_blob", "insert_invoice_data", "insert_full_invoice_data"} = {}
        /\ startswith(row_status, "DUPLICATE")

\* The relational write failed for a row that had uploaded and inserted its document
RelationalWriteFailed ==
    /\ RowEnded
    /\ s3_key # None
    /\ mongo_id # None
    /\ "insert_full_invoice_data" \in calls
    /\ pg_result = None

\* C2: when the relational write fails after the upload and the document
\* insert succeeded, a delete of the object and a delete of the document are
\* attempted before the row is finished, and the status begins with FAILED:
C2_CompensationOnRelationalFailure ==
    RelationalWriteFailed =>
        /\ {"delete_blob", "delete_document"} \subseteq calls
        /\ startswith(row_status, "FAILED:")

\* C3: at the end of a row, the object uploaded for it and the document
\* inserted for it are referenced by a relational record committed for the
\* row, or a compensating delete was attempted and the status is a failure
C3_NoOrphanWithoutCompensation ==
    RowEnded =>
        /\ s3_key # None =>
              \/ pg_result # None
              \/ "delete_blob" \in calls /\ startswith(row_status, "FAILED:")
        /\ mongo_id # None =>
              \/ pg_result # None
              \/ "delete_document" \in calls /\ startswith(row_status, "FAILED:")

\* insert_invoice_data was called for the row and returned no identifier
DocumentInsertReturnedNone ==
    /\ "insert_invoice_data" \in calls
    /\ mongo_id = None
    /\ exc = None

\* C4: when the document insert returns no identifier, no relational write
\* is attempted for the row and its status begins with FAILED:
C4_NoRelationalWriteAfterFailedInsert ==
    DocumentInsertReturnedNone =>
        /\ RowEndedBefore
        /\ "insert_full_invoice_data" \notin calls
        /\ startswith(row_status, "FAILED:")

C4_Witness == DocumentInsertReturnedNone /\ s3_key # None

\* C5: an exception raised while a row is processed is caught inside the row
\* loop, the row's status becomes FAILED: <message>, and the loop goes on:
\* it ends only when every row has been visited
C5_RowIsolation ==
    /\ exc # None => RowEndedBefore /\ row_status = FAILED(exc[1])
    /\ LoopFinished => pos = Len(df) + 1

\* A row raised, and a later row was processed to its end
C5_Witness ==
    /\ RowEnded
    /\ pos = 2
    /\ df[1].idx # df[2].idx
    /\ df[1].status = FAILED("upload error")
    /\ df[2].status = SUCCESS
    /\ "insert_full_invoice_data" \in calls

\* C6, as claimed: when the row loop has finished, processed, success and
\* failed sum to the number of rows of the expanded table
C6_CountersSumAsClaimed ==
    LoopFinished => processed_count + success_count + failed_count = Len(df)

\* C6, amended: when the row loop has finished, success and failed sum to the
\* number of rows of the expanded table, and processed equals success
C6_CountersSum ==
    LoopFinished =>
        /\ success_count + failed_count = Len(df)
        /\ processed_count = success_count

C6_Witness == LoopFinished /\ success_count >= 1 /\ failed_count >= 1

\* C7: a row that ends DUPLICATE does not increase the failed counter
C7_DuplicateIsNoFailure ==
    [][(pc = "dedup" /\ pc' = "row_end" /\ startswith(df'[pos].status, "DUPLICATE"))
         => failed_count' = failed_count]_vars

\* The frame has been expanded and the outcome columns added
Expanded == "status" \in columns

\* The tokens of a text, by position: the text is cut at every separator, each
\* piece loses the whitespace around it, and the pieces left empty are dropped
Cuts(s) == {0, Len(s) + 1} \cup {i \in 1..Len(s) : s[i] \in Separators}

NextCut(s, c) == CHOOSE d \in Cuts(s) : d > c /\ \A e \in Cuts(s) : e > c => d <= e

Trimmed(s, lo, hi) ==
    LET inner == {i \in lo..hi : s[i] \notin Whitespace}
        first == CHOOSE i \in inner : \A j \in inner : i <= j
        last == CHOOSE i \in inner : \A j \in inner : j <= i
    IN  IF inner = {} THEN <<>> ELSE SubSeq(s, first, last)

TokenAt(s, c) == Trimmed(s, c + 1, NextCut(s, c) - 1)

TokenStarts(s) == {c \in Cuts(s) \ {Len(s) + 1} : TokenAt(s, c) # <<>>}

Tokens(s) ==
    [k \in 1..Cardinality(TokenStarts(s)) |->
        TokenAt(s, CHOOSE c \in TokenStarts(s) :
                       Cardinality({d \in TokenStarts(s) : d < c}) = k - 1)]

\* The rows of the expanded frame that come from row i of the frame as read
RowsOf(i) == SelectSeq(df, LAMBDA r : r.idx = i - 1)

C9_OneReferencePerRow ==
    (Expanded /\ "file_link" \in columns) =>
        \A k \in 1..Len(df) :
            LET cell == df[k].file_link
            IN  isna(cell) \/ cell = <<>> \/ Tokens(cell) = <<cell>>

\* C10: when the row loop has finished, every row of the expanded table has a
\* status that is set and begins with SUCCESS, DUPLICATE or FAILED:
C10_EveryRowHasStatus ==
    (Expanded /\ pc \in {"loop_done", "done"}) =>
        \A k \in 1..Len(df) :
            /\ df[k].status # None
            /\ \/ startswith(df[k].status, "SUCCESS")
               \/ startswith(df[k].status, "DUPLICATE")
               \/ startswith(df[k].status, "FAILED:")

\* The loop finished over a row that raised, a row that succeeded and a duplicate
C10_Witness ==
    /\ LoopFinished
    /\ \E k \in 1..Len(df) : df[k].status = SUCCESS
    /\ \E k \in 1..Len(df) : df[k].status = FAILED("read error")

\* C11: once a row's status has been set, no step changes it, neither a later
\* step of that row nor the processing of another row
C11_StatusWrittenOnce ==
    [][\A k \in 1..Len(df) : df[k].status # None => df'[k].status = df[k].status]_vars

\* The writes of one kind the current row made
WritesOf(op) == SelectSeq(writes, LAMBDA w : w.op = op)

C13_MissingCellFailsUnfetched ==
    (RowEnded /\ "file_link" \in columns /\ isna(df[pos].file_link)) =>
        /\ Len(RowsOf(df[pos].idx + 1)) = 1
        /\ df[pos].other = input[df[pos].idx + 1].other
        /\ calls = {}
        /\ row_status = FAILED("Missing file_link")

\* C14: a row whose cell is no missing value but holds no token is not
\* fetched and ends with the status FAILED: Missing file_link
C14_ZeroTokensIsMissing ==
    (RowEnded /\ "file_link" \in columns /\ ~isna(df[pos].file_link)
              /\ Tokens(df[pos].file_link) = <<>>) =>
        /\ "download" \notin calls
        /\ row_status = FAILED("Missing file_link")

\* No two rows of hotel_uploads carry the same file_hash
HashUnique(table) == \A r1, r2 \in table : r1.file_hash = r2.file_hash => r1 = r2

\* The rows of the table without their updated_on
Without_updated_on(table) ==
    {[id |-> r.id, file_hash |-> r.file_hash, source_id |-> r.source_id] : r \in table}

\* C15: an upsert whose file_hash is in the table inserts no row, changes
\* nothing but updated_on of the existing row, and answers is_duplicate with
\* the existing row's id; the table never holds two rows with one file_hash
C15_UpsertByHash ==
    /\ []HashUnique(pg)
    /\ [][(pc = "pg" /\ pg_result' # None /\ select_by_hash(pg, file_hash) # {}) =>
             /\ Without_updated_on(pg') = Without_updated_on(pg)
             /\ Cardinality(pg') = Cardinality(pg)
             /\ \A r \in pg : r.file_hash # file_hash => r \in pg'
             /\ \E r \in select_by_hash(pg, file_hash) : pg_result' = <<r.id, "duplicate">>]_vars

\* The second row of a run repeated the upsert the first row had made
C15_Witness ==
    /\ RowEnded
    /\ pos = 2
    /\ pg_result = <<<<"1">>, "duplicate">>
    /\ Cardinality(pg) = 1

\* C16: with batch runs side by side, hotel_uploads never holds two rows
\* with the same file_hash
C16_HashUniqueUnderConcurrency == \A r1, r2 \in pg : r1.file_hash = r2.file_hash => r1.id = r2.id

\* C17: with batch runs racing through the duplicate check, the document
\* store never holds more than two documents with the same fingerprint
C17_AtMostOneDuplicateDocument ==
    revision = 1 =>
        \A content \in Contents :
            Cardinality({d \in mongo : d.file_hash = calculate_md5(content)}) <= 2

\* C18: in one batch run, the document store never holds two documents with
\* the same fingerprint
C18_OneDocumentPerFingerprint ==
    \A d1, d2 \in mongo : d1.file_hash = d2.file_hash => d1._id = d2._id

\* The user interrupted the run while it was in the row loop
Interrupted == pc = "interrupted"

\* C19: an interruption in the row loop ends the loop, the summary of the
\* progress so far is logged, and the interruption reaches the caller
C19_InterruptSummarisedAndPropagated ==
    Interrupted =>
        /\ result = "KeyboardInterrupt"
        /\ summary = Summary

\* C20: an interruption stops no row in the middle of its pipeline: the row
\* the run was interrupted in has no uploaded object or inserted document
\* unless it has its status and its pipeline is over
C20_CancellationAtRowBoundary ==
    (Interrupted /\ (s3_key # None \/ mongo_id # None)) =>
        /\ row_status # None
        /\ \/ pg_result # None
           \/ startswith(row_status, "FAILED:")
           \/ startswith(row_status, "DUPLICATE")

\* The input file is there, has a supported extension and can be read
InputIsRead ==
    /\ input_file_path # None
    /\ exists(input_file_path)
    /\ extension(input_file_path) \in {".csv", ".xlsx", ".xls"}
    /\ readable(input_file_path)

\* C21: when the input table has no file_link column, process_file returns
\* False without processing a row: the step that reads the table ends the call
C21_MissingColumnFailsBatch ==
    [][(pc = "start" /\ InputIsRead /\ "file_link" \notin columns) =>
          (pc' = "done" /\ result' = "False")]_vars

\* C22: with no output path configured, a run whose loop has finished writes
\* the annotated table to the input path and returns True
C22_OutputDefaultsToInput ==
    [][(pc = "loop_done" /\ output_file_path = None /\ faults' = faults) =>
          /\ result' = "True"
          /\ \E f \in files' : f.path = input_file_path /\ f.content = Annotated]_vars

\* The file at the output path is the table this run wrote
WrittenInThisRun ==
    \E f \in files : f.path = output_file_path /\ f.content.kind = "annotated"

\* C23: upload_output_file is called only for an output file this run wrote
C23_UploadOnlyAfterWrite == output_uploads # <<>> => WrittenInThisRun

\* C24: the process exits with 0 when the batch succeeds and with a non-zero
\* status when the input is missing or unreadable, its format unsupported,
\* the file_link column missing, or the write of the output failing
C24_ExitStatus ==
    [][(pc # "done" /\ pc' = "done") =>
          /\ result' = "True" => exit_status' = 0
          /\ \/ ~InputIsRead
             \/ "file_link" \notin columns
             \/ pc = "loop_done" /\ faults' # faults
             => exit_status' # 0]_vars

\* C25: the relational record inserted for a row carries, as source_id, the
\* identifier the document insert of that row returned
C25_SourceIdIsDocumentId ==
    (RowEnded /\ pg_result # None /\ pg_result[2] = "new") =>
        /\ mongo_id # None
        /\ \E r \in pg : r.id = pg_result[1] /\ r.source_id = mongo_id

\* C30: the relational upsert of a row is attempted only once the document
\* insert of that row has returned an identifier
C30_DocumentBeforeRelational ==
    [][("insert_full_invoice_data" \in calls' /\ "insert_full_invoice_data" \notin calls) =>
          /\ "insert_invoice_data" \in calls
          /\ mongo_id # None
          /\ \E d \in mongo : d._id = mongo_id
          /\ writes # <<>> /\ writes[Len(writes)].op = "insert_invoice_data"]_vars

\* A row made the document insert and then the relational upsert
C30_Witness ==
    /\ RowEnded /\ pg_result # None
    /\ Len(writes) = 2
    /\ writes[1].op = "insert_invoice_data"
    /\ writes[2].op = "insert_full_invoice_data"
\* C26: two calls of calculate_md5 on files of the same bytes return the same
\* digest, whatever the files' names and the chunk sizes of the reads
C26_DigestOfBytesOnly ==
    \A i \in DOMAIN hashers, j \in DOMAIN hashers :
        (/\ hashers[i].digest # None
         /\ hashers[j].digest # None
         /\ hashers[i].content = hashers[j].content)
        => hashers[i].digest = hashers[j].digest

\* Two files of the same bytes under two names, read in one chunk and in
\* several, have both been hashed
C26_Witness ==
    /\ Len(hashers) = 2
    /\ hashers[1].digest # None /\ hashers[2].digest # None
    /\ hashers[1].content = hashers[2].content
    /\ hashers[1].file_path # hashers[2].file_path
    /\ hashers[1].chunk_size = 1
    /\ hashers[2].chunk_size >= Len(hashers[2].content)
    /\ Len(hashers[1].content) >= 2
\* The failures of a request that may pass: connection errors, timeouts, 5xx
Transient == {"ConnectionError", "Timeout", "HTTPError 500", "HTTPError 503"}

\* The failures of a request that will not pass: 4xx, a malformed URL
NonTransient == {"HTTPError 403", "HTTPError 404", "MissingSchema"}

\* C27: a call of the fetcher makes at most max_retries requests, makes a
\* further request only after a transient transport failure and after a
\* sleep of 2 ** attempt seconds, and so comes to its return
C27_BoundedRetry ==
    /\ Len(fetch.outcomes) <= max_retries
    /\ fetch.pc = "request" => Len(fetch.outcomes) < max_retries
    /\ \A k \in 1..Len(fetch.slept) :
          /\ fetch.outcomes[k] \in Transient
          /\ fetch.slept[k] = 2 ^ (k - 1)
    /\ Len(fetch.slept) = fetch.attempt

\* C28: after a 4xx response or a malformed URL the call makes no further
\* request
C28_NonTransientFailsAtOnce ==
    \A k \in 1..Len(fetch.outcomes) :
        fetch.outcomes[k] \in NonTransient => k = Len(fetch.outcomes) /\ fetch.pc # "request"

\* C29: a successful response that leaves an empty file or none ends the call
\* with no further request, and the row gets 'FAILED: PDF download failed'
C29_EmptyArtifactFailsRow ==
    (fetch.file # None /\ fetch.file[1] \in {"empty", "missing"}) =>
        /\ fetch.pc # "request"
        /\ fetch.outcomes[Len(fetch.outcomes)] = "200"
        /\ fetch.pc # "returned" => fetch.status = FAILED("PDF download failed")
\* The scratch file of the row the loop is at is on disk
ScratchPresent == \E f \in downloads : f.path = local_file_path

\* C31: at the end of a row that fetched a file, the scratch file is removed
\* by the orchestrator when the relational write succeeded and only then; a
\* row that failed or was a duplicate keeps its file, and whether or not the
\* removal worked the successful row is SUCCESS and counted
C31_ScratchRemovedOnSuccess ==
    (RowEnded /\ local_file_path # None) =>
        /\ pg_result # None => "os.remove" \in calls
        /\ pg_result = None => ScratchPresent /\ "os.remove" \notin calls
        /\ ~ScratchPresent => pg_result # None
        /\ pg_result # None => success_count > 0
\* C32: at every row boundary success_count + failed_count is the number of
\* rows visited so far
C32_CountersAtRowBoundary ==
    /\ pc = "row_end" => success_count + failed_count = pos
    /\ pc = "row" => success_count + failed_count = pos - 1
    /\ pc = "loop_done" => success_count + failed_count = Len(df)

\* The second row has ended on a caught exception after a first row that
\* was counted a success
C32_Witness ==
    /\ pc = "row_end" /\ pos = 2
    /\ exc # None
    /\ success_count = 1 /\ failed_count = 1
\* C33: a row's upload goes to a key that holds no object of an earlier row
\* of the run (the object store is empty when the run begins)
C33_UploadKeysDistinct ==
    [][(s3_key' # s3_key /\ s3_key' # None) => \A o \in s3 : o.key # s3_key']_vars
\* The outcome columns of a row of the frame
Outcome(row) == <<row.status, row.file_hash, row.s3_link>>

\* C34: a step of the row loop that records the outcome of the row it is at
\* leaves the outcome columns of every other row as they were
C34_OutcomeWritesOneRow ==
    [][(pc # "start" /\ Len(df') = Len(df)) =>
          \A k \in 1..Len(df) : k # pos => Outcome(df'[k]) = Outcome(df[k])]_vars
\* C35: once the row loop has finished, every row of the frame whose status
\* is SUCCESS has a document and a relational row with its file_hash
C35_SuccessRowsAreStored ==
    pc \in {"loop_done", "done"} =>
        \A k \in 1..Len(df) :
            df[k].status = SUCCESS =>
                /\ \E d \in mongo : d.file_hash = df[k].file_hash
                /\ \E r \in pg : r.file_hash = df[k].file_hash

\* The run has ended with two rows cloned from one parent, both SUCCESS
C35_Witness ==
    /\ pc = "done" /\ result = "True"
    /\ Len(df) = 2
    /\ df[1].idx = df[2].idx
    /\ df[1].status = SUCCESS /\ df[2].status = SUCCESS
\* C36: when process_file has returned True with an output path given, the
\* annotated table of this run is at that path
C36_TrueMeansWritten ==
    (pc = "done" /\ result = "True" /\ output_file_path # None) =>
        \E f \in files : f.path = output_file_path /\ f.content = Annotated
\* C37: the instance main.py makes has cloud_helper set from its construction
\* on, so no row fails for the missing attribute
C37_CloudHelperInitialised ==
    /\ fetch.pc # "new" => "cloud_helper" \in processor
    /\ fetch.status # AttributeError("cloud_helper")

\* _download_pdf has returned
Returned == fetch.pc \in {"returned", "hash", "upload", "row_end"}

\* C38: _download_pdf returns (it never raises), having invoked the browser
\* strategy for a wormhole.app URL and the HTTP strategy for any other, and
\* returns the local path when the file was saved and None otherwise
C38_DownloadDispatch ==
    Returned =>
        /\ wormhole(fetch.url) => fetch.strategy = <<"playwright">>
        /\ ~wormhole(fetch.url) => fetch.strategy = <<"requests">>
        /\ fetch.file = <<"bytes">> => fetch.returned # None
        /\ fetch.returned # None => fetch.file # None
====
